---- MODULE Spec2Model ----
(***************************************************************************)
(* A model of src/src/document.js: the Document class of a schema-driven   *)
(* document model.  A Document is a list of enumerable own properties in   *)
(* creation order; each is either an accessor installed by defineField     *)
(* (with its private slot) or a plain data property.  Values are tagged    *)
(* tuples so that values of different JavaScript types can be compared.    *)
(***************************************************************************)
EXTENDS Integers, Sequences, FiniteSets, TLC

VARIABLES schema, doc, op, arg, vstate, vnames, verrors, vseen

vars == <<schema, doc, op, arg, vstate, vnames, verrors, vseen>>

\* Longest array value of the inputs.
MaxLen == 2

---------------------------------------------------------------------------
\* JavaScript values
NULL == <<"null", "">>
UNDEF == <<"undef", "">>
Num(n) == <<"num", n>>
Str(s) == <<"str", s>>
Arr(items) == <<"arr", items>>
\* a plain object: its keys with their values, in key order
Obj(pairs) == <<"obj", pairs>>
\* a Document instance of a schema: its enumerable own properties
DocV(s, props) == <<"doc", s, props>>

Tag(v) == v[1]
IsAbsentValue(v) == Tag(v) \in {"null", "undef"}
\* JavaScript truthiness (v && ...)
Truthy(v) ==
    CASE Tag(v) \in {"null", "undef"} -> FALSE
      [] Tag(v) = "str" -> v[2] # ""
      [] Tag(v) = "num" -> v[2] # 0
      [] OTHER -> TRUE

Range(seq) == {seq[i] : i \in 1..Len(seq)}
EmptyMap == [n \in {} |-> NULL]

---------------------------------------------------------------------------
\* Schemas (./schema): fields in declaration order, mode, field definitions
SchemaNames == {"empty", "person", "relaxed", "list", "family", "hooked"}

SchemaMode(s) == IF s = "relaxed" THEN "relaxed" ELSE "strict"

SchemaFields(s) ==
    CASE s = "person" -> <<"name", "child">>
      [] s = "relaxed" -> <<"name", "partner">>
      [] s = "list" -> <<"tags">>
      [] s = "family" -> <<"kids">>
      [] s = "hooked" -> <<"nick">>
      [] s = "child" -> <<"title">>
      [] OTHER -> <<>>

HasDefinition(s, name) == name \in Range(SchemaFields(s))

ScalarType(base) == [arr |-> FALSE, base |-> base, schema |-> ""]
ArrayType(base) == [arr |-> TRUE, base |-> base, schema |-> ""]
SchemaType(s) == [arr |-> FALSE, base |-> "Schema", schema |-> s]
SchemaArrayType(s) == [arr |-> TRUE, base |-> "Schema", schema |-> s]

Def(type, dflt, producer, get, set, validations) ==
    [type |-> type, defaultValue |-> dflt, producer |-> producer,
     get |-> get, set |-> set, validations |-> validations]

FieldDefinition(s, name) ==
    CASE s = "person" /\ name = "name" ->
           Def(ScalarType("String"), Num(1), "", "", "", <<"presence", "explode">>)
      [] s = "person" /\ name = "child" ->
           Def(SchemaType("child"), UNDEF, "childOfName", "", "", <<>>)
      [] s = "relaxed" /\ name = "name" ->
           Def(ScalarType("String"), Num(1), "", "", "", <<"presence">>)
      [] s = "relaxed" /\ name = "partner" ->
           Def(SchemaType("child"), UNDEF, "", "", "", <<"absence">>)
      [] s = "list" /\ name = "tags" ->
           Def(ArrayType("String"), UNDEF, "", "", "", <<"presence", "explode">>)
      [] s = "family" /\ name = "kids" ->
           Def(SchemaArrayType("child"), UNDEF, "", "", "", <<>>)
      [] s = "hooked" /\ name = "nick" ->
           Def(ScalarType("String"), Str("a"), "", "shout", "orAnon", <<>>)
      [] s = "child" /\ name = "title" ->
           Def(ScalarType("String"), UNDEF, "", "", "", <<"presence", "explode">>)

\* definition.get / definition.set hooks of the schemas above
ApplyHook(hook, data) ==
    CASE hook = "orAnon" -> IF IsAbsentValue(data) THEN Str("anon") ELSE data
      [] hook = "shout" -> IF data = Str("a") THEN Str("A") ELSE data
      [] OTHER -> data

---------------------------------------------------------------------------
\* Enumerable own properties: <<name, kind, value>>, kind "acc" or "plain"
Names(props) == [i \in 1..Len(props) |-> props[i][1]]
KeySet(props) == {props[i][1] : i \in 1..Len(props)}
Has(props, name) == name \in KeySet(props)
IndexOf(props, name) == CHOOSE i \in 1..Len(props) : props[i][1] = name
Entry(props, name) == props[IndexOf(props, name)]
IsAccessor(props, name) == Has(props, name) /\ Entry(props, name)[2] = "acc"
PutEntry(props, e) ==
    IF Has(props, e[1])
    THEN [props EXCEPT ![IndexOf(props, e[1])] = e]
    ELSE Append(props, e)

\* this[name]
Read(props, s, name) ==
    IF ~Has(props, name) THEN UNDEF
    ELSE IF Entry(props, name)[2] = "plain" THEN Entry(props, name)[3]
    ELSE IF FieldDefinition(s, name).get # ""
         THEN ApplyHook(FieldDefinition(s, name).get, Entry(props, name)[3])
         ELSE Entry(props, name)[3]

RECURSIVE Construct(_, _)
RECURSIVE CastItem(_, _)
RECURSIVE AssignAll(_, _, _, _)
RECURSIVE DefineFrom(_, _, _)

\* typeable cast(value, type, {schema}): absent values become null, an array
\* type casts each element, String stringifies, a Schema type builds a Document
CastItem(value, type) ==
    CASE IsAbsentValue(value) -> NULL
      [] type.base = "Schema" -> Construct(type.schema, value)
      [] type.base = "String" /\ Tag(value) = "num" -> Str(ToString(value[2]))
      [] OTHER -> value

Cast(value, type) ==
    IF IsAbsentValue(value) THEN NULL
    ELSE IF type.arr
         THEN Arr([i \in 1..Len(value[2]) |-> CastItem(value[2][i], type)])
         ELSE CastItem(value, type)

castValue(value, definition) == Cast(value, definition.type)

\* the setter installed by defineField: (value = null) => cast, then set hook
SetterData(value, definition) ==
    LET v == IF Tag(value) = "undef" THEN NULL ELSE value
        data == castValue(v, definition)
    IN IF definition.set # "" THEN ApplyHook(definition.set, data) ELSE data

\* this[name] = value
Assign(props, s, name, value) ==
    IF IsAccessor(props, name)
    THEN PutEntry(props, <<name, "acc", SetterData(value, FieldDefinition(s, name))>>)
    ELSE PutEntry(props, <<name, "plain", value>>)

\* a variant that never invokes a default producer
DefaultOfConstant(props, s, definition) == definition.defaultValue

\* definition.defaultValue, or definition.defaultValue(this)
DefaultOf(props, s, definition) ==
    IF definition.producer = "childOfName"
    THEN Obj(<< <<"title", Read(props, s, "name")>> >>)
    ELSE definition.defaultValue

defineField(props, s, name) ==
    LET installed == PutEntry(props, <<name, "acc", UNDEF>>)
    IN Assign(installed, s, name, DefaultOf(installed, s, FieldDefinition(s, name)))

DefineFrom(props, s, i) ==
    IF i > Len(SchemaFields(s)) THEN props
    ELSE DefineFrom(defineField(props, s, SchemaFields(s)[i]), s, i + 1)

define(props, s) == DefineFrom(props, s, 1)

\* a variant without the strict-mode check
populateFieldAnyMode(props, s, name, value) == Assign(props, s, name, value)

populateField(props, s, name, value) ==
    IF SchemaMode(s) = "relaxed" THEN Assign(props, s, name, value)
    ELSE IF HasDefinition(s, name) THEN Assign(props, s, name, value)
    ELSE props

AssignAll(props, s, pairs, i) ==
    IF i > Len(pairs) THEN props
    ELSE AssignAll(populateField(props, s, pairs[i][1], pairs[i][2]), s, pairs, i + 1)

populate(props, s, data) == AssignAll(props, s, data[2], 1)

purgeField(props, name) == SelectSeq(props, LAMBDA e : e[1] # name)

purge(props) ==
    LET names == Names(props)
        F[i \in 0..Len(names)] == IF i = 0 THEN props ELSE purgeField(F[i - 1], names[i])
    IN F[Len(names)]

\* a variant that clears declared fields only
clearFieldDeclared(props, s, name) ==
    IF HasDefinition(s, name) THEN Assign(props, s, name, NULL) ELSE props

clearField(props, s, name) == Assign(props, s, name, NULL)

clear(props, s) ==
    LET names == Names(props)
        F[i \in 0..Len(names)] == IF i = 0 THEN props ELSE clearField(F[i - 1], s, names[i])
    IN F[Len(names)]

\* a variant of the constructor that leaves out populate(data)
ConstructNoPopulate(s, data) == DocV(s, define(purge(<<>>), s))

Construct(s, data) == DocV(s, populate(define(purge(<<>>), s), s, data))

RECURSIVE valueToObject(_)
RECURSIVE toObject(_, _)

valueToObject(v) ==
    CASE Tag(v) = "doc" -> toObject(v[3], v[2])
      [] Tag(v) = "arr" -> Arr([i \in 1..Len(v[2]) |-> valueToObject(v[2][i])])
      [] OTHER -> v

toObject(props, s) ==
    Obj([i \in 1..Len(props) |-> <<props[i][1], valueToObject(Read(props, s, props[i][1]))>>])

clone(props, s) == Construct(s, toObject(props, s))[3]

---------------------------------------------------------------------------
\* The rule executor (validatable Validator.validate): the messages of the
\* rules that fail, in rule order; a rule that throws rejects the call.
IsBlank(v) ==
    \/ IsAbsentValue(v)
    \/ v = Str("")
    \/ v = Arr(<<>>)
    \/ v = Obj(<<>>)

RuleRejects(rule, value) == rule = "explode" /\ value = Str("!")

RuleMessage(rule, value) ==
    CASE rule = "presence" /\ IsBlank(value) -> <<"must be present">>
      [] rule = "absence" /\ ~IsBlank(value) -> <<"must be blank">>
      [] OTHER -> <<>>

ValidatorValidate(value, validations) ==
    LET F[i \in 0..Len(validations)] ==
          IF i = 0 THEN <<>> ELSE F[i - 1] \o RuleMessage(validations[i], value)
    IN IF \E i \in 1..Len(validations) : RuleRejects(validations[i], value)
       THEN <<"reject", <<>>>>
       ELSE <<"ok", F[Len(validations)]>>

\* this._schema.fields[name]
DefinitionOf(s, name) ==
    IF HasDefinition(s, name) THEN <<"def", FieldDefinition(s, name)>> ELSE UNDEF

\* validation result nodes and the related part
Node(isValid, messages, related) == <<"node", isValid, messages, related>>
RelatedMap(f) == <<"map", f>>
RelatedArr(items) == <<"arr", items>>
Rejected == <<"reject", UNDEF>>
Resolved(r) == <<"ok", r>>

\* v.isValid read off a member of related, and !v || v.isValid
IsValidOf(v) ==
    CASE Tag(v) = "node" -> IF v[2] THEN "true" ELSE "false"
      [] Tag(v) = "map" -> IF "isValid" \in DOMAIN v[2] THEN "object" ELSE "undefined"
      [] OTHER -> "undefined"

NotOrIsValid(v) == IF Tag(v) = "undef" THEN "true" ELSE IsValidOf(v)

\* lines 243-248: isValid from messages, overwritten when related is set
ComputeIsValid(messages, related) ==
    CASE Tag(related) = "map" ->
           ~("false" \in {IsValidOf(related[2][n]) : n \in DOMAIN related[2]})
      [] Tag(related) = "arr" ->
           "false" \in {NotOrIsValid(related[2][i]) : i \in 1..Len(related[2])}
      [] OTHER -> Len(messages) = 0

\* a variant that returns a node for a valid field too
FieldResultAlways(isValid, messages, related) == Node(isValid, messages, related)

\* line 250
FieldResult(isValid, messages, related) ==
    IF isValid THEN UNDEF ELSE Node(isValid, messages, related)

RECURSIVE validateField(_, _)
RECURSIVE validate(_, _)

\* value.validate() / v.validate() on a value that may not be a Document
ValidateValue(v) ==
    IF Tag(v) = "doc" THEN validate(v[3], v[2]) ELSE Rejected

\* lines 226-241: related, or a rejection
RelatedOf(value, definition) ==
    LET type == definition[2].type
    IN IF ~type.arr /\ type.base = "Schema" /\ Truthy(value)
       THEN ValidateValue(value)
       ELSE IF type.arr /\ Tag(value) = "arr"
       THEN LET parts == [i \in 1..Len(value[2]) |->
                            IF type.base = "Schema"
                            THEN IF Truthy(value[2][i])
                                 THEN ValidateValue(value[2][i])
                                 ELSE Resolved(UNDEF)
                            ELSE validateField(value[2][i], definition)]
            IN IF \E i \in 1..Len(parts) : parts[i] = Rejected
               THEN Rejected
               ELSE Resolved(RelatedArr([i \in 1..Len(parts) |-> parts[i][2]]))
       ELSE Resolved(NULL)

validateField(value, definition) ==
    IF Tag(definition) = "undef" THEN Rejected
    ELSE LET run == ValidatorValidate(value, definition[2].validations)
         IN IF run[1] = "reject" THEN Rejected
            ELSE LET rel == RelatedOf(value, definition)
                 IN IF rel = Rejected THEN Rejected
                    ELSE Resolved(FieldResult(ComputeIsValid(run[2], rel[2]),
                                              run[2], rel[2]))

\* the error map after the fields before position i, or a rejection
ErrorsUpTo(props, s, i) ==
    LET res == [k \in 1..Len(props) |->
                  validateField(Read(props, s, props[k][1]), DefinitionOf(s, props[k][1]))]
    IN IF \E k \in 1..i : res[k] = Rejected
       THEN Rejected
       ELSE Resolved(RelatedMap([n \in {props[k][1] : k \in {j \in 1..i : res[j][2] # UNDEF}} |->
                                   res[IndexOf(props, n)][2]]))

validate(props, s) == ErrorsUpTo(props, s, Len(props))

---------------------------------------------------------------------------
\* Inputs of populate() and of the constructor: plain objects
Seqs(S, n) == UNION {[1..k -> S] : k \in 0..n}

ChildData == {Obj(<<>>), Obj(<< <<"title", Num(1)>> >>), Obj(<< <<"title", Str("!")>> >>)}

RawValues(name) ==
    CASE name = "name" -> {UNDEF, Num(1), Str(""), Str("!")}
      [] name = "child" -> {NULL} \cup ChildData
      [] name = "partner" -> {NULL, Obj(<<>>), Obj(<< <<"title", Num(1)>> >>)}
      [] name = "tags" -> {NULL} \cup {Arr(a) : a \in Seqs({Num(1), Str(""), Str("!")}, MaxLen)}
      [] name = "kids" ->
           {NULL} \cup {Arr(a) : a \in Seqs({NULL} \cup ChildData, MaxLen)}
      [] name = "nick" -> {UNDEF, Str("a"), Num(1)}
      [] OTHER -> {UNDEF, Num(1)}

InputNames(s) == Range(SchemaFields(s)) \cup {"extra"}

Pairs(s) == UNION {{<<n, v>> : v \in RawValues(n)} : n \in InputNames(s)}

\* {}, every one-key object, and every declared key followed by an undeclared one
DataSet(s) ==
    {Obj(<<>>)}
      \cup {Obj(<<p>>) : p \in Pairs(s)}
      \cup {Obj(<<p, <<"extra", Num(1)>> >>) : p \in {q \in Pairs(s) : q[1] # "extra"}}

NoData == Obj(<<>>)

---------------------------------------------------------------------------
\* line 211: a rejected await ends validate(); lines 212-214: keep an error
\* a variant that swallows the rejection and goes on
AfterAwaitSwallowed(r) == "running"

AfterAwait(r) == IF r = Rejected THEN "rejected" ELSE "running"

StoreError(errors, name, r) ==
    IF r = Rejected \/ r[2] = UNDEF THEN errors
    ELSE [n \in DOMAIN errors \cup {name} |-> IF n = name THEN r[2] ELSE errors[n]]

\* The document is not mutated while a validate() call is in progress: callers
\* serialize validation and mutation of one instance.
Idle == vstate = "idle"

\* new Document(schema, data)
Init ==
    /\ schema \in SchemaNames
    /\ \E data \in DataSet(schema) :
         /\ doc = Construct(schema, data)[3]
         /\ arg = data
    /\ op = "new"
    /\ vstate = "idle"
    /\ vnames = <<>>
    /\ verrors = EmptyMap
    /\ vseen = <<>>

Purge ==
    /\ Idle
    /\ doc' = purge(doc)
    /\ op' = "purge"
    /\ arg' = NoData
    /\ UNCHANGED <<schema, vstate, vnames, verrors, vseen>>

Define ==
    /\ Idle
    /\ doc' = define(doc, schema)
    /\ op' = IF op = "purge" THEN "purge-define" ELSE "define"
    /\ arg' = NoData
    /\ UNCHANGED <<schema, vstate, vnames, verrors, vseen>>

Populate ==
    /\ Idle
    /\ \E data \in DataSet(schema) :
         /\ doc' = populate(doc, schema, data)
         /\ arg' = data
    /\ op' = "populate"
    /\ UNCHANGED <<schema, vstate, vnames, verrors, vseen>>

Clear ==
    /\ Idle
    /\ doc' = clear(doc, schema)
    /\ op' = "clear"
    /\ arg' = NoData
    /\ UNCHANGED <<schema, vstate, vnames, verrors, vseen>>

Clone ==
    /\ Idle
    /\ doc' = clone(doc, schema)
    /\ op' = "clone"
    /\ arg' = NoData
    /\ UNCHANGED <<schema, vstate, vnames, verrors, vseen>>

\* validate(): the loop over the own enumerable names, one field per step
ValidateStart ==
    /\ Idle
    /\ vstate' = "running"
    /\ vnames' = Names(doc)
    /\ verrors' = EmptyMap
    /\ vseen' = <<>>
    /\ UNCHANGED <<schema, doc, op, arg>>

ValidateStep ==
    /\ vstate = "running"
    /\ vnames # <<>>
    /\ LET name == Head(vnames)
           r == validateField(Read(doc, schema, name), DefinitionOf(schema, name))
       IN /\ vstate' = AfterAwait(r)
          /\ verrors' = StoreError(verrors, name, r)
          /\ vseen' = Append(vseen, name)
          /\ vnames' = Tail(vnames)
    /\ UNCHANGED <<schema, doc, op, arg>>

ValidateResolve ==
    /\ vstate = "running"
    /\ vnames = <<>>
    /\ vstate' = "resolved"
    /\ UNCHANGED <<schema, doc, op, arg, vnames, verrors, vseen>>

\* the caller takes the settled promise
ValidateReturn ==
    /\ vstate \in {"resolved", "rejected"}
    /\ vstate' = "idle"
    /\ vnames' = <<>>
    /\ verrors' = EmptyMap
    /\ vseen' = <<>>
    /\ UNCHANGED <<schema, doc, op, arg>>

Next ==
    \/ Purge
    \/ Define
    \/ Populate
    \/ Clear
    \/ Clone
    \/ ValidateStart
    \/ ValidateStep
    \/ ValidateResolve
    \/ ValidateReturn

Spec == Init /\ [][Next]_vars

---------------------------------------------------------------------------
\* Helpers of the properties
ValueOf(name) == Read(doc, schema, name)
TypeOf(name) == FieldDefinition(schema, name).type
MessagesOf(name) == ValidatorValidate(ValueOf(name), FieldDefinition(schema, name).validations)[2]
Reported(name) == name \in DOMAIN verrors

\* the declared type is neither a nested Schema with a present value nor an
\* array type with an array value
NoRelatedPart(name) ==
    /\ HasDefinition(schema, name)
    /\ ~(~TypeOf(name).arr /\ TypeOf(name).base = "Schema" /\ Truthy(ValueOf(name)))
    /\ ~(TypeOf(name).arr /\ Tag(ValueOf(name)) = "arr")

RECURSIVE StructEq(_, _)
\* structural equality of serialized values, key order aside
StructEq(a, b) ==
    CASE Tag(a) = "obj" /\ Tag(b) = "obj" ->
           /\ {a[2][i][1] : i \in 1..Len(a[2])} = {b[2][i][1] : i \in 1..Len(b[2])}
           /\ Len(a[2]) = Len(b[2])
           /\ \A i \in 1..Len(a[2]) : \A j \in 1..Len(b[2]) :
                a[2][i][1] = b[2][j][1] => StructEq(a[2][i][2], b[2][j][2])
      [] Tag(a) = "arr" /\ Tag(b) = "arr" ->
           /\ Len(a[2]) = Len(b[2])
           /\ \A i \in 1..Len(a[2]) : StructEq(a[2][i], b[2][i])
      [] OTHER -> a = b

RoundTrips == StructEq(toObject(clone(doc, schema), schema), toObject(doc, schema))

---------------------------------------------------------------------------
\* C1: when validate() resolves, a field with no related part is in the error
\* map exactly when the rule executor returned a message for its value, as
\* {isValid: false, messages, related: null}; a document without keys
\* resolves to the empty map.
C1_SparseErrorMap ==
    vstate = "resolved" =>
      /\ \A name \in KeySet(doc) :
           NoRelatedPart(name) =>
             /\ Reported(name) <=> MessagesOf(name) # <<>>
             /\ Reported(name) => verrors[name] = Node(FALSE, MessagesOf(name), NULL)
      /\ KeySet(doc) = {} => verrors = EmptyMap

\* an invalid scalar field is reported next to a null field that is left out
C1_Witness ==
    /\ schema = "person"
    /\ vstate = "resolved"
    /\ ValueOf("name") = Str("")
    /\ Reported("name")
    /\ ValueOf("child") = NULL
    /\ ~Reported("child")

\* C2: a nested-document field is reported whenever its own messages are
\* non-empty or the nested document's error map is non-empty.
C2_NestedKeepsOwnMessages ==
    vstate = "resolved" =>
      \A name \in KeySet(doc) :
        (/\ HasDefinition(schema, name)
         /\ ~TypeOf(name).arr
         /\ TypeOf(name).base = "Schema"
         /\ Tag(ValueOf(name)) = "doc")
        => LET nested == validate(ValueOf(name)[3], ValueOf(name)[2])[2][2]
           IN (MessagesOf(name) # <<>> \/ DOMAIN nested # {}) => Reported(name)

\* C3: an array field is reported exactly when some element result has
\* isValid = false, and then with the element results in array order.
C3_ArrayInvalidIffElementInvalid ==
    vstate = "resolved" =>
      \A name \in KeySet(doc) :
        (/\ HasDefinition(schema, name)
         /\ TypeOf(name).arr
         /\ Tag(ValueOf(name)) = "arr")
        => LET results == RelatedOf(ValueOf(name), DefinitionOf(schema, name))[2]
           IN /\ Reported(name) <=>
                   \E i \in 1..Len(results[2]) : IsValidOf(results[2][i]) = "false"
              /\ Reported(name) =>
                   /\ verrors[name][2] = FALSE
                   /\ verrors[name][4] = results

\* C4: after populate(data), a strict document has the declared keys of data
\* and no undeclared one; a relaxed document has every key of data, an
\* undeclared one holding the supplied value.
C4_PopulateByMode ==
    op = "populate" =>
      \A i \in 1..Len(arg[2]) :
        LET name == arg[2][i][1]
            value == arg[2][i][2]
        IN IF SchemaMode(schema) = "relaxed"
           THEN /\ Has(doc, name)
                /\ ~HasDefinition(schema, name) => ValueOf(name) = value
           ELSE /\ HasDefinition(schema, name) => Has(doc, name)
                /\ ~HasDefinition(schema, name) => ~Has(doc, name)

\* a strict document was populated with a declared and an undeclared key
C4_Witness ==
    /\ schema = "person"
    /\ op = "populate"
    /\ arg = Obj(<< <<"name", Str("")>>, <<"extra", Num(1)>> >>)
    /\ ValueOf("name") = Str("")
    /\ ~Has(doc, "extra")

\* C5: validate() of a relaxed document never rejects on a key that has no
\* FieldDefinition: such a key is validated against an empty definition.
C5_ExtraKeyResolves ==
    (SchemaMode(schema) = "relaxed" /\ vstate = "rejected")
      => HasDefinition(schema, vseen[Len(vseen)])

\* C6: every enumerable own key is an accessor installed by defineField.
C6_EveryKeyIsAccessor == \A i \in 1..Len(doc) : doc[i][2] = "acc"

\* C7: a document built from d.toObject() serializes to d.toObject().
C7_RoundTrip == RoundTrips

\* C7 as amended: the round trip holds for a document on which every field
\* of the schema is defined.
C7_RoundTripWhenDefined ==
    (\A i \in 1..Len(SchemaFields(schema)) : IsAccessor(doc, SchemaFields(schema)[i]))
      => RoundTrips

\* a clone of a document with an array of nested documents
C7_Witness ==
    /\ schema = "family"
    /\ op = "clone"
    /\ Tag(ValueOf("kids")) = "arr"
    /\ \E i \in 1..Len(ValueOf("kids")[2]) : Tag(ValueOf("kids")[2][i]) = "doc"
    /\ \E i \in 1..Len(ValueOf("kids")[2]) : ValueOf("kids")[2][i] = NULL
    /\ RoundTrips

\* C8: a field whose validation rejects ends validate() as rejected at once:
\* it is the last field validated, and validate() never resolves past it.
C8_RejectionPropagates ==
    \A i \in 1..Len(vseen) :
      validateField(ValueOf(vseen[i]), DefinitionOf(schema, vseen[i])) = Rejected
        => /\ vstate = "rejected"
           /\ i = Len(vseen)
           /\ verrors = ErrorsUpTo(doc, schema, i - 1)[2][2]

\* the rule executor rejected on the first field and the second was not validated
C8_Witness ==
    /\ schema = "person"
    /\ vstate = "rejected"
    /\ vseen = <<"name">>
    /\ vnames = <<"child">>
    /\ ValueOf("name") = Str("!")

\* the defaults the schemas declare, coerced
DeclaredDefaults(s) ==
    CASE s = "person" ->
           << <<"name", "acc", Str("1")>>,
              <<"child", "acc", DocV("child", << <<"title", "acc", Str("1")>> >>)>> >>
      [] s = "relaxed" -> << <<"name", "acc", Str("1")>>, <<"partner", "acc", NULL>> >>
      [] s = "list" -> << <<"tags", "acc", NULL>> >>
      [] s = "family" -> << <<"kids", "acc", NULL>> >>
      [] s = "hooked" -> << <<"nick", "acc", Str("a")>> >>
      [] OTHER -> <<>>

\* C9: after purge() then define() the document has exactly the schema's
\* fields, each holding its declared default.
C9_PurgeDefineResets == op = "purge-define" => doc = DeclaredDefaults(schema)

\* purge() and define() ran on a document with a producer default
C9_Witness ==
    /\ schema = "person"
    /\ op = "purge-define"
    /\ ValueOf("child") = DocV("child", << <<"title", "acc", Str("1")>> >>)

\* C10: clear() keeps the key set and leaves every key without hooks
\* reading null; purge() leaves no key.
C10_ClearKeepsShape ==
    [][/\ Clear =>
            /\ KeySet(doc') = KeySet(doc)
            /\ Names(doc') = Names(doc)
            /\ \A name \in KeySet(doc') :
                 (HasDefinition(schema, name) /\ IsAccessor(doc', name)
                    /\ (FieldDefinition(schema, name).get # ""
                          \/ FieldDefinition(schema, name).set # ""))
                 \/ Read(doc', schema, name) = NULL
       /\ Purge => KeySet(doc') = {}]_vars

\* a relaxed document with an undeclared key was cleared
C10_Witness ==
    /\ schema = "relaxed"
    /\ op = "clear"
    /\ Names(doc) = <<"name", "partner", "extra">>
    /\ \A name \in KeySet(doc) : ValueOf(name) = NULL

====
